---- MODULE Spec2Model ----
(***************************************************************************)
(* Model of src/weather/weather.py: the location cache                     *)
(* (get_cached_location_key / cache_location_key) and the hourly-weather   *)
(* tool get_hourly_weather, run as cooperative asyncio tasks of one server *)
(* process.  A task runs atomically between two awaits; the awaits are the *)
(* three upstream calls (search, current conditions, hourly forecast).     *)
(***************************************************************************)
EXTENDS Integers, Sequences, FiniteSets, TLC

\* ------------------------------------------------------------------ bounds
\* Longest hourly-forecast response the upstream is made to return.
MaxHours == 2

\* Tool invocations (asyncio tasks) the host may have running at once, and
\* the one that runs when the host serializes them.
Tasks == {"t1", "t2"}
Main == "t1"
\* Free-text location queries and provider location identifiers.
Queries == {"q1", "q2"}
Keys == {"k1", "k2"}

\* ------------------------------------------------------------ JSON values
\* A parsed JSON value: an array of elements, an object (a non-empty dict
\* such as the provider's {"Code": ..., "Message": ...} error body) or null.
Arr(s) == [t |-> "array", v |-> s]
ErrBody == [t |-> "object", v |-> <<>>]
Null == [t |-> "null", v |-> <<>>]
\* A local variable that has not been assigned.
Unbound == [t |-> "unbound", v |-> <<>>]
\* Python's None as a dict.get default / a missing cache entry.
None == "None"

\* Python truthiness of a parsed JSON value (`if not locations`,
\* `if current_conditions`).
Truthy(j) == CASE j.t = "array" -> Len(j.v) > 0
               [] j.t = "object" -> TRUE
               [] OTHER -> FALSE

\* len(x) of an array or of the error object, which has two members.
PyLen(j) == IF j.t = "array" THEN Len(j.v) ELSE 2

\* d.get(k): the member, or None when the dict has no such member.
Get(d, k) == IF k \in DOMAIN d THEN d[k] ELSE None

\* -------------------------------------------------------- upstream payloads
\* Elements of the city-search result list.
Loc1 == [Key |-> "k1", LocalizedName |-> "n1", Country |-> [LocalizedName |-> "c1"]]
Loc2 == [Key |-> "k2", LocalizedName |-> "n2", Country |-> [LocalizedName |-> "c2"]]

\* A current-conditions element with every field the code reads.
Cur1 == [Temperature |-> [Metric |-> [Value |-> "21", Unit |-> "C"]],
         WeatherText |-> "Sunny",
         RelativeHumidity |-> "40",
         HasPrecipitation |-> "True",
         LocalObservationDateTime |-> "T0"]

\* Hourly elements: one with the optional fields, one without, one lacking
\* the required IconPhrase.
Hour1 == [Temperature |-> [Value |-> "20", Unit |-> "C"],
          IconPhrase |-> "Cloudy",
          PrecipitationProbability |-> "10",
          PrecipitationType |-> "Rain",
          PrecipitationIntensity |-> "Light"]
Hour2 == [Temperature |-> [Value |-> "19", Unit |-> "C"],
          IconPhrase |-> "Clear",
          PrecipitationProbability |-> "0"]
HourBad == [Temperature |-> [Value |-> "18", Unit |-> "C"],
            PrecipitationProbability |-> "5"]
RawHours == {Hour1, Hour2}

\* What one upstream call can come back with: the transport failing (the
\* await raises), or a status and a parsed body.
Resp(s, b) == [transport |-> "ok", status |-> s, body |-> b]
TransportFailure == [transport |-> "fail", status |-> 0, body |-> Null]

SearchResponses ==
    {TransportFailure}
    \cup {Resp(s, b) : s \in {200, 503},
                       b \in {Arr(<<>>), Arr(<<Loc1>>), Arr(<<Loc2, Loc1>>), ErrBody}}

CurrentResponses ==
    {TransportFailure, Resp(200, Arr(<<>>)), Resp(200, Arr(<<Cur1>>)),
     Resp(200, Null), Resp(401, ErrBody)}

SeqsUpTo(S, n) == UNION {[1..m -> S] : m \in 0..n}

HourlyResponses ==
    {TransportFailure, Resp(401, ErrBody), Resp(200, Arr(<<Hour1, HourBad>>))}
    \cup {Resp(200, Arr(s)) : s \in SeqsUpTo(RawHours, MaxHours)}

\* The current-conditions and hourly responses given to invocations that
\* run concurrently: one failure and one well-formed payload each.
ConcCurrentResponses == {TransportFailure, Resp(200, Arr(<<Cur1>>))}
ConcHourlyResponses == {TransportFailure, Resp(200, Arr(<<Hour1>>))}

\* --------------------------------------------------------- the cache file
\* LOCATION_CACHE_FILE as the bytes on disk: missing, text that is not
\* JSON, JSON that is not an object, or a JSON object given by its members
\* in textual order (a member name may be repeated in a hand-edited file).
FileAbsent == [kind |-> "absent", pairs |-> <<>>]
FileGarbage == [kind |-> "garbage", pairs |-> <<>>]
FileList == [kind |-> "list", pairs |-> <<>>]
FileObject(ps) == [kind |-> "object", pairs |-> ps]

InitialFiles ==
    {FileAbsent, FileGarbage, FileList,
     FileObject(<<>>),
     FileObject(<< <<"q2", "k2">> >>),
     FileObject(<< <<"q1", "k2">>, <<"q2", "k1">> >>),
     FileObject(<< <<"q1", "k1">>, <<"q1", "k2">> >>)}

\* A Python dict of the cache, as its items in insertion order (names
\* distinct).
DictHas(d, k) == \E i \in 1..Len(d) : d[i][1] = k

\* cache.get(location): the value stored under k, or None.
DictGet(d, k) ==
    IF DictHas(d, k)
    THEN d[CHOOSE i \in 1..Len(d) : d[i][1] = k][2]
    ELSE None

\* cache[location] = location_key keeping every other item, but replacing
\* nothing: the existing value wins (dict.setdefault).
DictSetDefault(d, k, v) ==
    IF DictHas(d, k) THEN d ELSE Append(d, <<k, v>>)

\* cache[location] = location_key: the value of an existing item is
\* replaced in place, a new item goes last.
DictSet(d, k, v) ==
    IF DictHas(d, k)
    THEN [i \in 1..Len(d) |-> IF d[i][1] = k THEN <<k, v>> ELSE d[i]]
    ELSE Append(d, <<k, v>>)

\* The dict json.load builds from an object's members: read left to right,
\* a repeated name keeps its first place and takes the last value.
RECURSIVE DictOfPairs(_)
DictOfPairs(ps) ==
    IF ps = <<>> THEN <<>>
    ELSE LET n == Len(ps)
             front == DictOfPairs(SubSeq(ps, 1, n - 1))
         IN  DictSet(front, ps[n][1], ps[n][2])

\* json.load(f): the parsed value, or JSONDecodeError on text that is not
\* JSON.
json_load(f) ==
    CASE f.kind = "garbage" -> [err |-> "JSONDecodeError", t |-> "none", d |-> <<>>]
      [] f.kind = "list" -> [err |-> "none", t |-> "list", d |-> <<>>]
      [] OTHER -> [err |-> "none", t |-> "dict", d |-> DictOfPairs(f.pairs)]

\* json.dump(cache, f, indent=2) into the truncated file.
json_dump(d) == FileObject(d)

\* get_cached_location_key(location): what it returns, or the exception
\* that leaves it.  Only JSONDecodeError and FileNotFoundError are caught.
get_cached_location_key(f, q) ==
    IF f.kind = "absent"
    THEN [raised |-> "none", value |-> None]
    ELSE LET cache == json_load(f)
         IN  CASE cache.err # "none" -> [raised |-> "none", value |-> None]
               [] cache.t # "dict" -> [raised |-> "AttributeError", value |-> None]
               [] OTHER -> [raised |-> "none", value |-> DictGet(cache.d, q)]

\* The filesystem call of cache_location_key that fails, if any.
NoFault == "none"
Faults == {"mkdir", "read", "open_w", "write"}

\* cache_location_key that writes a mapping holding the new entry alone.
cache_location_key_fresh(f, q, k, fault) ==
    [raised |-> "none", warned |-> FALSE, file |-> json_dump(<< <<q, k>> >>)]

\* cache_location_key(location, location_key): the exception that leaves it
\* (mkdir is outside the try), whether the warning was printed, and the
\* file afterwards.  A failed read, a parse error, a parsed value that takes
\* no item assignment and a failed open-for-write leave the file as it was;
\* a write failing after the open leaves it truncated.
cache_location_key(f, q, k, fault) ==
    LET warn(g) == [raised |-> "none", warned |-> TRUE, file |-> g]
        cache == IF f.kind = "absent"
                 THEN [err |-> "none", t |-> "dict", d |-> <<>>]
                 ELSE json_load(f)
    IN  IF fault = "mkdir"
        THEN [raised |-> "OSError", warned |-> FALSE, file |-> f]
        ELSE IF fault = "read" /\ f.kind # "absent" THEN warn(f)
        ELSE IF cache.err # "none" THEN warn(f)
        ELSE IF cache.t # "dict" THEN warn(f)
        ELSE IF fault = "open_w" THEN warn(f)
        ELSE IF fault = "write" THEN warn(FileGarbage)
        ELSE [raised |-> "none", warned |-> FALSE,
              file |-> json_dump(DictSet(cache.d, q, k))]

\* ------------------------------------------------------------- normalizer
\* The "unavailable" marker and a structured current-conditions value.
Text(s) == [t |-> "text", v |-> s]
Dict(r) == [t |-> "dict", v |-> r]
Unavailable == Text("No current conditions available")

\* f"+{i} hour{'s' if i > 1 else ''}"
relative_time(i) == [sign |-> "+", n |-> i, unit |-> IF i > 1 THEN "hours" ELSE "hour"]

\* The keys an hourly element / a current-conditions element must have.
HourOk(h) == {"Temperature", "IconPhrase", "PrecipitationProbability"} \subseteq DOMAIN h
CurOk(c) == {"Temperature", "WeatherText", "LocalObservationDateTime"} \subseteq DOMAIN c

\* One entry of hourly_data, built from the i-th element.
HourlyPoint(i, hour) ==
    [relative_time |-> relative_time(i),
     temperature |-> [value |-> hour.Temperature.Value, unit |-> hour.Temperature.Unit],
     weather_text |-> hour.IconPhrase,
     precipitation_probability |-> hour.PrecipitationProbability,
     precipitation_type |-> Get(hour, "PrecipitationType"),
     precipitation_intensity |-> Get(hour, "PrecipitationIntensity")]

\* The loop numbering from 0 (enumerate without its start argument).
format_hourly_from0(forecast) ==
    CASE forecast.t # "array" -> [err |-> "TypeError", v |-> <<>>]
      [] forecast.t = "array" /\ \E i \in 1..Len(forecast.v) : ~HourOk(forecast.v[i]) ->
           [err |-> "KeyError", v |-> <<>>]
      [] OTHER ->
           [err |-> "none",
            v |-> [i \in 1..Len(forecast.v) |-> HourlyPoint(i - 1, forecast.v[i])]]

\* for i, hour in enumerate(forecast, 1): hourly_data.append(...).  Iterating
\* an object yields its member names, and indexing a name with "Temperature"
\* raises TypeError; an element without a required key raises KeyError;
\* iterating null raises TypeError.
format_hourly(forecast) ==
    CASE forecast.t # "array" -> [err |-> "TypeError", v |-> <<>>]
      [] forecast.t = "array" /\ \E i \in 1..Len(forecast.v) : ~HourOk(forecast.v[i]) ->
           [err |-> "KeyError", v |-> <<>>]
      [] OTHER ->
           [err |-> "none",
            v |-> [i \in 1..Len(forecast.v) |-> HourlyPoint(i, forecast.v[i])]]

CurrentData(current) ==
    Dict([temperature |-> [value |-> current.Temperature.Metric.Value,
                           unit |-> current.Temperature.Metric.Unit],
          weather_text |-> current.WeatherText,
          relative_humidity |-> Get(current, "RelativeHumidity"),
          precipitation |-> IF "HasPrecipitation" \in DOMAIN current
                            THEN current.HasPrecipitation ELSE "False",
          observation_time |-> current.LocalObservationDateTime])

\* The branch without its guard: current_conditions[0] on whatever came.
format_current_unguarded(cc) ==
    IF cc.t = "array" /\ Len(cc.v) > 0 /\ CurOk(cc.v[1])
    THEN [err |-> "none", v |-> CurrentData(cc.v[1])]
    ELSE [err |-> "IndexError", v |-> Unavailable]

\* if current_conditions and len(current_conditions) > 0: ... else the
\* marker.  current_conditions[0] of an object raises KeyError.
format_current(cc) ==
    IF Truthy(cc) /\ PyLen(cc) > 0
    THEN CASE cc.t # "array" -> [err |-> "KeyError", v |-> Unavailable]
           [] cc.t = "array" /\ ~CurOk(cc.v[1]) -> [err |-> "KeyError", v |-> Unavailable]
           [] OTHER -> [err |-> "none", v |-> CurrentData(cc.v[1])]
    ELSE [err |-> "none", v |-> Unavailable]

\* ------------------------------------------------------ get_hourly_weather
VARIABLES
    file,                \* LOCATION_CACHE_FILE on disk
    pc,                  \* per task: idle, or the await it is suspended at, or done
    location,            \* the argument of the invocation
    cached,              \* what get_cached_location_key returned to it
    location_key,        \* the local location_key
    locations,           \* the local locations (the search body), or Unbound
    status,              \* response.status of the search call, 0 before it
    current_conditions,  \* the local current_conditions
    forecast,            \* the local forecast
    requests,            \* the upstream requests the invocation has issued
    opened,              \* ClientSession objects the invocation has created
    closed,              \* ... and closed
    warned,              \* whether the invocation printed the cache warning
    outcome              \* how the invocation ended: a return value or an exception

vars == <<file, pc, location, cached, location_key, locations, status,
          current_conditions, forecast, requests, opened, closed, warned, outcome>>

NoValue == [t |-> "none"]
Pending == [kind |-> "none", error |-> "none", value |-> NoValue]
Raise(e) == [kind |-> "raise", error |-> e, value |-> NoValue]
Return(v) == [kind |-> "return", error |-> "none", value |-> v]

Init ==
    /\ file \in InitialFiles
    /\ pc = [t \in Tasks |-> "idle"]
    /\ location = [t \in Tasks |-> None]
    /\ cached = [t \in Tasks |-> None]
    /\ location_key = [t \in Tasks |-> None]
    /\ locations = [t \in Tasks |-> Unbound]
    /\ status = [t \in Tasks |-> 0]
    /\ current_conditions = [t \in Tasks |-> Unbound]
    /\ forecast = [t \in Tasks |-> Unbound]
    /\ requests = [t \in Tasks |-> <<>>]
    /\ opened = [t \in Tasks |-> 0]
    /\ closed = [t \in Tasks |-> 0]
    /\ warned = [t \in Tasks |-> FALSE]
    /\ outcome = [t \in Tasks |-> Pending]

\* Leaving the session block with the session still open when an exception
\* passes through it.
ExitLeakOnError(t, out) ==
    /\ pc' = [pc EXCEPT ![t] = "done"]
    /\ outcome' = [outcome EXCEPT ![t] = out]
    /\ closed' = [closed EXCEPT ![t] = IF out.kind = "return" THEN @ + 1 ELSE @]

\* Leaving `async with ClientSession() as session:` by a return or by an
\* exception: the session is closed, the invocation ends.
Exit(t, out) ==
    /\ pc' = [pc EXCEPT ![t] = "done"]
    /\ outcome' = [outcome EXCEPT ![t] = out]
    /\ closed' = [closed EXCEPT ![t] = @ + 1]

\* The checks of the search response without the empty-list test:
\* locations[0] of an empty list raises IndexError.
search_error_no_empty_test(st, body) ==
    IF st # 200 THEN "StatusError"
    ELSE IF body.t # "array" THEN "KeyError"
    ELSE IF Len(body.v) = 0 THEN "IndexError"
    ELSE "none"

\* The checks of the search response, in the code's order: the status,
\* the empty result, then locations[0]["Key"].
search_error(st, body) ==
    IF st # 200 THEN "StatusError"
    ELSE IF ~Truthy(body) \/ PyLen(body) = 0 THEN "LocationNotFound"
    ELSE IF body.t # "array" THEN "KeyError"
    ELSE IF "Key" \notin DOMAIN body.v[1] THEN "KeyError"
    ELSE "none"

\* The returned dict; reading the unassigned local `locations` raises
\* UnboundLocalError.
make_result(locs, key, current_data, hourly_data) ==
    IF locs.t = "unbound"
    THEN Raise("UnboundLocalError")
    ELSE Return([location |-> locs.v[1].LocalizedName,
                 location_key |-> key,
                 country |-> locs.v[1].Country.LocalizedName,
                 current_conditions |-> current_data,
                 hourly_forecast |-> hourly_data])

\* Lines 182-219: format the hourly data, then the current conditions, then
\* build the result.
normalize(locs, key, cc, fc) ==
    LET h == format_hourly(fc)
        c == format_current(cc)
    IN  IF h.err # "none" THEN Raise(h.err)
        ELSE IF c.err # "none" THEN Raise(c.err)
        ELSE make_result(locs, key, c.v, h.v)

\* A tool invocation up to its first await: the cache lookup, the session,
\* and the first request (the search on a miss, current conditions on a hit).
Invoke(t, q) ==
    /\ pc[t] \in {"idle", "done"}
    /\ LET r == get_cached_location_key(file, q)
       IN  /\ location' = [location EXCEPT ![t] = q]
           /\ cached' = [cached EXCEPT ![t] = r.value]
           /\ location_key' = [location_key EXCEPT ![t] = r.value]
           /\ locations' = [locations EXCEPT ![t] = Unbound]
           /\ status' = [status EXCEPT ![t] = 0]
           /\ current_conditions' = [current_conditions EXCEPT ![t] = Unbound]
           /\ forecast' = [forecast EXCEPT ![t] = Unbound]
           /\ warned' = [warned EXCEPT ![t] = FALSE]
           /\ closed' = [closed EXCEPT ![t] = 0]
           /\ IF r.raised # "none"
              THEN /\ pc' = [pc EXCEPT ![t] = "done"]
                   /\ outcome' = [outcome EXCEPT ![t] = Raise(r.raised)]
                   /\ opened' = [opened EXCEPT ![t] = 0]
                   /\ requests' = [requests EXCEPT ![t] = <<>>]
              ELSE /\ outcome' = [outcome EXCEPT ![t] = Pending]
                   /\ opened' = [opened EXCEPT ![t] = 1]
                   /\ pc' = [pc EXCEPT ![t] = IF r.value = None THEN "search" ELSE "current"]
                   /\ requests' = [requests EXCEPT ![t] =
                                      IF r.value = None THEN <<"search">> ELSE <<"current">>]
    /\ UNCHANGED file

\* The search call returns: lines 154-170.
SearchResponse(t, resp, fault) ==
    /\ pc[t] = "search"
    /\ UNCHANGED <<location, cached, current_conditions, forecast, opened>>
    /\ IF resp.transport = "fail"
       THEN /\ Exit(t, Raise("ClientError"))
            /\ UNCHANGED <<file, location_key, locations, status, requests, warned>>
       ELSE /\ locations' = [locations EXCEPT ![t] = resp.body]
            /\ status' = [status EXCEPT ![t] = resp.status]
            /\ LET e == search_error(resp.status, resp.body)
               IN  IF e # "none"
                   THEN /\ Exit(t, Raise(e))
                        /\ UNCHANGED <<file, location_key, requests, warned>>
                   ELSE LET k == resp.body.v[1].Key
                            c == cache_location_key(file, location[t], k, fault)
                        IN  /\ location_key' = [location_key EXCEPT ![t] = k]
                            /\ file' = c.file
                            /\ warned' = [warned EXCEPT ![t] = c.warned]
                            /\ IF c.raised # "none"
                               THEN /\ Exit(t, Raise(c.raised))
                                    /\ UNCHANGED requests
                               ELSE /\ pc' = [pc EXCEPT ![t] = "current"]
                                    /\ requests' = [requests EXCEPT ![t] = Append(@, "current")]
                                    /\ UNCHANGED <<outcome, closed>>

\* The current-conditions call returns: lines 170-179.
CurrentResponse(t, resp) ==
    /\ pc[t] = "current"
    /\ UNCHANGED <<file, location, cached, location_key, locations, status,
                   forecast, opened, warned>>
    /\ IF resp.transport = "fail"
       THEN /\ Exit(t, Raise("ClientError"))
            /\ UNCHANGED <<current_conditions, requests>>
       ELSE /\ current_conditions' = [current_conditions EXCEPT ![t] = resp.body]
            /\ pc' = [pc EXCEPT ![t] = "hourly"]
            /\ requests' = [requests EXCEPT ![t] = Append(@, "hourly")]
            /\ UNCHANGED <<outcome, closed>>

\* The hourly-forecast call returns: lines 179-219.
HourlyResponse(t, resp) ==
    /\ pc[t] = "hourly"
    /\ UNCHANGED <<file, location, cached, location_key, locations, status,
                   current_conditions, requests, opened, warned>>
    /\ IF resp.transport = "fail"
       THEN /\ Exit(t, Raise("ClientError"))
            /\ UNCHANGED forecast
       ELSE /\ forecast' = [forecast EXCEPT ![t] = resp.body]
            /\ Exit(t, normalize(locations[t], location_key[t],
                                 current_conditions[t], resp.body))

\* The host serializes the invocations: one runs to its end, then the next.
Next ==
    \/ \E q \in Queries : Invoke(Main, q)
    \/ \E resp \in SearchResponses : SearchResponse(Main, resp, NoFault)
    \/ \E resp \in CurrentResponses : CurrentResponse(Main, resp)
    \/ \E resp \in HourlyResponses : HourlyResponse(Main, resp)

Spec == Init /\ [][Next]_vars

\* The host runs invocations concurrently: they interleave at the awaits.
NextConc ==
    \/ \E t \in Tasks, q \in Queries : Invoke(t, q)
    \/ \E t \in Tasks, resp \in SearchResponses : SearchResponse(t, resp, NoFault)
    \/ \E t \in Tasks, resp \in ConcCurrentResponses : CurrentResponse(t, resp)
    \/ \E t \in Tasks, resp \in ConcHourlyResponses : HourlyResponse(t, resp)

SpecConc == Init /\ [][NextConc]_vars

\* Serialized invocations on a filesystem whose calls may fail.
StoreFault ==
    \E resp \in SearchResponses, fault \in Faults : SearchResponse(Main, resp, fault)

NextFault == Next \/ StoreFault

SpecFault == Init /\ [][NextFault]_vars

\* ------------------------------------------------------------ properties
Done(t) == pc[t] = "done"
Returned(t) == Done(t) /\ outcome[t].kind = "return"
\* The invocation found its location in the cache.
CacheHit(t) == pc[t] # "idle" /\ cached[t] # None
\* The search of the invocation came back with status 200 and a result list
\* with at least one element.
SearchSucceeded(t) ==
    /\ status[t] = 200
    /\ locations[t].t = "array"
    /\ Len(locations[t].v) > 0
\* The hourly response of the invocation is an array of well-formed elements.
ForecastWellFormed(t) ==
    /\ forecast[t].t = "array"
    /\ \A i \in 1..Len(forecast[t].v) : HourOk(forecast[t].v[i])
\* The current-conditions response of the invocation is null, an empty array
\* or an array whose first element is well-formed.
CurrentWellFormed(t) ==
    \/ current_conditions[t].t = "null"
    \/ /\ current_conditions[t].t = "array"
       /\ Len(current_conditions[t].v) > 0 => CurOk(current_conditions[t].v[1])
\* Errors that come from the upstream calls or their payloads.
UpstreamErrors == {"ClientError", "StatusError", "LocationNotFound", "KeyError", "TypeError"}
\* The value get_cached_location_key returns for q on file f.
Lookup(f, q) == get_cached_location_key(f, q).value
\* The file is missing or holds a mapping with one member per name.
ValidFile(f) ==
    \/ f.kind = "absent"
    \/ /\ f.kind = "object"
       /\ \A i, j \in 1..Len(f.pairs) : f.pairs[i][1] = f.pairs[j][1] => i = j
\* The step in which task t runs cache_location_key to its end.
StoreStep(t) == pc[t] = "search" /\ pc'[t] = "current"

\* C1: an invocation that hits the cache issues no search call and, when the
\* current-conditions and hourly calls deliver well-formed payloads, returns
\* a result whose location name and country name are populated.
C1_CacheHitReturnsResult ==
    \A t \in Tasks :
        (Done(t) /\ CacheHit(t)) =>
            /\ "search" \notin {requests[t][i] : i \in 1..Len(requests[t])}
            /\ (CurrentWellFormed(t) /\ ForecastWellFormed(t)) =>
                   /\ outcome[t].kind = "return"
                   /\ outcome[t].value.location \in {"n1", "n2"}
                   /\ outcome[t].value.country \in {"c1", "c2"}

\* C2: after cache_location_key(q, k) on a missing file or on a file holding
\* a mapping, get_cached_location_key(q) returns k, for every store of every
\* run (concurrent invocations included).
C2_RoundTrip ==
    [][\A t \in Tasks :
          (StoreStep(t) /\ file.kind \in {"absent", "object"}) =>
              get_cached_location_key(file', location[t])
                  = [raised |-> "none", value |-> location_key'[t]]]_vars

\* C2 witness: a store into a file that already held another query's entry
\* has been done and the lookup of the stored query yields the stored key.
C2_Witness ==
    \E t \in Tasks :
        /\ pc[t] = "current" /\ cached[t] = None
        /\ file.kind = "object" /\ Len(file.pairs) = 2
        /\ file.pairs[1][1] # location[t]
        /\ Lookup(file, location[t]) = location_key[t]

\* C3: cache_location_key never raises, whichever of its filesystem calls
\* fails: an invocation whose search succeeded ends, if it raises at all,
\* with an error of the later upstream calls, and if it returns, its result
\* carries the key the search resolved.
C3_StoreNeverRaises ==
    \A t \in Tasks :
        (Done(t) /\ ~CacheHit(t) /\ SearchSucceeded(t)) =>
            /\ outcome[t].kind = "raise" => outcome[t].error \in UpstreamErrors
            /\ outcome[t].kind = "return" =>
                   outcome[t].value.location_key = locations[t].v[1].Key

\* C4: on a missing cache file and on any content that is not a mapping
\* (text that does not parse, or a parsed value that is no mapping) the
\* lookup returns None and raises nothing.
C4_LookupFailsSoft ==
    \A t \in Tasks :
        (pc[t] # "idle" /\ file.kind # "object") =>
            /\ cached[t] = None
            /\ outcome[t].error # "AttributeError"
            /\ get_cached_location_key(file, location[t]).raised = "none"

\* C5 as stated: whenever the search call comes back with an empty result
\* list, the invocation raises the location-not-found error, issues no
\* further request and leaves the cache file as it was.
C5_EmptyResultAnyStatus ==
    [][\A t \in Tasks :
          (pc[t] = "search" /\ locations'[t] = Arr(<<>>)) =>
              /\ pc'[t] = "done"
              /\ outcome'[t] = Raise("LocationNotFound")
              /\ requests'[t] = <<"search">>
              /\ file' = file]_vars

\* C5 amended: whenever the search call comes back with status 200 and an
\* empty result list, the invocation raises the location-not-found error,
\* issues no further request and leaves the cache file as it was.
C5_ZeroResultFatal ==
    [][\A t \in Tasks :
          (pc[t] = "search" /\ locations'[t] = Arr(<<>>) /\ status'[t] = 200) =>
              /\ pc'[t] = "done"
              /\ outcome'[t] = Raise("LocationNotFound")
              /\ requests'[t] = <<"search">>
              /\ file' = file]_vars

\* C5 witness: an invocation ended with the location-not-found error on a
\* 200 response with an empty list, beside a cache file that holds entries.
C5_Witness ==
    \E t \in Tasks :
        /\ Done(t) /\ status[t] = 200 /\ locations[t] = Arr(<<>>)
        /\ outcome[t] = Raise("LocationNotFound")
        /\ file.kind = "object" /\ Len(file.pairs) > 0

\* C6: a failed current-conditions call does not end the invocation: no
\* invocation ends at the current-conditions call, and one that received an
\* error body there (with a resolved location and a well-formed hourly
\* response) returns a result with the "unavailable" marker.
C6_CurrentFailureDegrades ==
    \A t \in Tasks :
        Done(t) =>
            /\ (Len(requests[t]) > 0 => requests[t][Len(requests[t])] # "current")
            /\ (/\ ~CacheHit(t) /\ SearchSucceeded(t)
                /\ current_conditions[t] = ErrBody
                /\ ForecastWellFormed(t)) =>
                   /\ outcome[t].kind = "return"
                   /\ outcome[t].value.current_conditions = Unavailable

\* C7: when the search succeeded, the current-conditions response is an
\* empty array and the hourly response is well-formed, the invocation returns
\* a result with the "unavailable" marker whose location, location_key and
\* country come from the first search result and whose hourly_forecast has
\* one point per element of the hourly response, in order.
C7_EmptyCurrentDegrades ==
    \A t \in Tasks :
        (/\ Done(t) /\ ~CacheHit(t) /\ SearchSucceeded(t)
         /\ current_conditions[t] = Arr(<<>>)
         /\ ForecastWellFormed(t)) =>
            /\ outcome[t].kind = "return"
            /\ LET r == outcome[t].value
                   first == locations[t].v[1]
               IN  /\ r.current_conditions = Unavailable
                   /\ r.location = first.LocalizedName
                   /\ r.location_key = first.Key
                   /\ r.country = first.Country.LocalizedName
                   /\ Len(r.hourly_forecast) = Len(forecast[t].v)
                   /\ \A i \in 1..Len(forecast[t].v) :
                          r.hourly_forecast[i].weather_text = forecast[t].v[i].IconPhrase

\* C7 witness: a returned result with the marker and two hourly points.
C7_Witness ==
    \E t \in Tasks :
        /\ Returned(t)
        /\ current_conditions[t] = Arr(<<>>)
        /\ outcome[t].value.current_conditions = Unavailable
        /\ Len(outcome[t].value.hourly_forecast) = 2
        /\ locations[t] = Arr(<<Loc2, Loc1>>)

\* C8: an invocation creates at most one session; while it is suspended at
\* an upstream call it holds exactly one open session; once it has ended,
\* by a return or by any error, every session it created is closed, and an
\* invocation that issued any upstream request created exactly one.
C8_SessionReleased ==
    \A t \in Tasks :
        /\ opened[t] <= 1
        /\ closed[t] <= opened[t]
        /\ pc[t] \in {"search", "current", "hourly"} => (opened[t] = 1 /\ closed[t] = 0)
        /\ Done(t) => closed[t] = opened[t]
        /\ (Done(t) /\ requests[t] # <<>>) => (opened[t] = 1 /\ closed[t] = 1)

\* C8 witness: an invocation that raised during normalization (the hourly
\* response had arrived) and whose one session is closed.
C8_Witness ==
    \E t \in Tasks :
        /\ Done(t) /\ outcome[t].kind = "raise"
        /\ forecast[t].t = "array"
        /\ opened[t] = 1 /\ closed[t] = 1

\* C9: a returned hourly_forecast has one point per element of the hourly
\* response; the i-th point carries relative offset i ("+1 hour", "+2 hours",
\* ...) and the data of the i-th element.
C9_RelativeOffsets ==
    \A t \in Tasks :
        Returned(t) =>
            LET hf == outcome[t].value.hourly_forecast
                fc == forecast[t].v
            IN  /\ forecast[t].t = "array"
                /\ Len(hf) = Len(fc)
                /\ \A i \in 1..Len(fc) :
                       /\ hf[i].relative_time.n = i
                       /\ hf[i].relative_time.unit = (IF i = 1 THEN "hour" ELSE "hours")
                       /\ hf[i].weather_text = fc[i].IconPhrase
                       /\ hf[i].temperature.value = fc[i].Temperature.Value
                       /\ hf[i].precipitation_probability = fc[i].PrecipitationProbability
                       /\ hf[i].precipitation_type = Get(fc[i], "PrecipitationType")

\* C9 witness: a result built from a response whose MaxHours elements are
\* all the same; both are kept.
C9_Witness ==
    \E t \in Tasks :
        /\ Returned(t)
        /\ Len(forecast[t].v) = MaxHours
        /\ \A i \in 1..MaxHours : forecast[t].v[i] = Hour1
        /\ Len(outcome[t].value.hourly_forecast) = MaxHours

====
